---- MODULE Spec2Model ----
(***************************************************************************)
(* Model of tenant_schemas/contrib/celery.py: the TenantTask class, which  *)
(* inserts the caller's connection schema into a task's kwargs under the   *)
(* reserved key '_schema_name', and the task_prerun handler switch_schema, *)
(* which pops that key and switches the executing process's connection.    *)
(*                                                                         *)
(* Python passes mappings by reference, so kwargs mappings are modelled as *)
(* objects held in variables: the default mapping of apply_async's         *)
(* signature (one object per process, created when the module is           *)
(* imported), the mapping the calling code holds, and the mapping of the   *)
(* request the worker is executing.  A message on the broker holds a       *)
(* serialised copy.                                                        *)
(***************************************************************************)
EXTENDS Naturals, Sequences, FiniteSets

\* Bound of the model: the messages the broker holds at one time.
MaxQueue == 1

\* The schema names in use: the public schema, which get_public_schema_name()
\* names, and one tenant's schema.
PublicSchemaName == "public"
Schemas == {"public", "tenant_a"}

\* The processes: a web process that enqueues, a worker that executes.
Procs == {"web", "worker"}

\* The reserved key and one ordinary keyword argument.
SchemaKey == "_schema_name"
OtherKey == "n"

\* Positional arguments of a call.
ArgsSet == {<< >>, <<"a1">>}

\* The mapping with no entries.
EmptyKw == [k \in {} |-> "v1"]

\* The ordinary keyword arguments the calling code passes: one entry.  (A
\* call that omits kwargs passes none.)
Extra == [k \in {OtherKey} |-> "v1"]

VARIABLES
    tenants,    \* schema names for which the tenant model has a record
    conn,       \* conn[p]: connection.schema_name of process p
    defaultKw,  \* defaultKw[p]: the default kwargs object of apply_async in p
    held,       \* the mapping the web process's code holds and passes as kwargs
    queue,      \* messages on the broker
    pc,         \* the worker: "idle" or "body"
    running,    \* the request the worker is executing
    last,       \* the call of TenantTask.apply_async / apply that just returned
    lastPre     \* the run of switch_schema that just ended

vars == <<tenants, conn, defaultKw, held, queue, pc, running, last, lastPre>>

----------------------------------------------------------------------------
\* dict operations

\* dict.setdefault(k, v)
SetDefault(d, k, v) ==
    IF k \in DOMAIN d THEN d
    ELSE [j \in DOMAIN d \cup {k} |-> IF j = k THEN v ELSE d[j]]

\* the value dict.pop(k, default) returns
PopValue(d, k, default) == IF k \in DOMAIN d THEN d[k] ELSE default

\* the mapping dict.pop(k, default) leaves
PopRest(d, k) == [j \in DOMAIN d \ {k} |-> d[j]]

----------------------------------------------------------------------------
\* the tenant model and the connection

\* get_tenant_model().objects.get(schema_name=schema) finds a record
TenantExists(schema) == schema \in tenants

\* connection.set_tenant(tenant, include_public=True): the schema name the
\* connection is on afterwards
SetTenant(schema) == schema

----------------------------------------------------------------------------
\* celery.py

\* _add_current_schema as it would be with an assignment in place of
\* setdefault
AddCurrentSchemaOverwrite(kwds, cur) ==
    [j \in DOMAIN kwds \cup {SchemaKey} |->
        IF j = SchemaKey THEN cur ELSE kwds[j]]

\* TenantTask._add_current_schema(kwds), for the connection schema cur
AddCurrentSchema(kwds, cur) == SetDefault(kwds, SchemaKey, cur)

\* switch_schema as it would be with kwargs.get in place of kwargs.pop
SwitchSchemaNoPop(kwargs, cur) ==
    LET schema == PopValue(kwargs, SchemaKey, PublicSchemaName)
        found == TenantExists(schema)
    IN  [ kwargs |-> kwargs,
          schema |-> schema,
          raised |-> ~found,
          conn   |-> IF found THEN SetTenant(schema) ELSE cur ]

\* switch_schema as it would be if an absent key meant "stay on the current
\* schema"
SwitchSchemaKeepCurrent(kwargs, cur) ==
    LET schema == PopValue(kwargs, SchemaKey, cur)
        found == TenantExists(schema)
    IN  [ kwargs |-> PopRest(kwargs, SchemaKey),
          schema |-> schema,
          raised |-> ~found,
          conn   |-> IF found THEN SetTenant(schema) ELSE cur ]

\* switch_schema as it would be if a missing tenant made it fall back to the
\* public schema
SwitchSchemaFallback(kwargs, cur) ==
    LET schema == PopValue(kwargs, SchemaKey, PublicSchemaName)
        found == TenantExists(schema)
    IN  [ kwargs |-> PopRest(kwargs, SchemaKey),
          schema |-> schema,
          raised |-> FALSE,
          conn   |-> IF found THEN SetTenant(schema)
                     ELSE SetTenant(PublicSchemaName) ]

\* switch_schema as it would be if it caught the lookup error and returned
SwitchSchemaSwallow(kwargs, cur) ==
    LET schema == PopValue(kwargs, SchemaKey, PublicSchemaName)
        found == TenantExists(schema)
    IN  [ kwargs |-> PopRest(kwargs, SchemaKey),
          schema |-> schema,
          raised |-> FALSE,
          conn   |-> IF found THEN SetTenant(schema) ELSE cur ]

\* switch_schema(kwargs, **kw) run in a process whose connection is on cur:
\* the kwargs mapping afterwards, the schema looked up, whether the lookup
\* raised, and the connection's schema afterwards.
SwitchSchema(kwargs, cur) ==
    LET schema == PopValue(kwargs, SchemaKey, PublicSchemaName)
        found == TenantExists(schema)
    IN  [ kwargs |-> PopRest(kwargs, SchemaKey),
          schema |-> schema,
          raised |-> ~found,
          conn   |-> IF found THEN SetTenant(schema) ELSE cur ]

----------------------------------------------------------------------------
\* records

\* the last step was no call of apply_async / apply
NoCall ==
    [ valid |-> FALSE, proc |-> "web", via |-> "none", mode |-> "none",
      conn |-> PublicSchemaName, explicit |-> FALSE,
      before |-> EmptyKw, handed |-> EmptyKw, after |-> EmptyKw,
      argsIn |-> << >>, argsOut |-> << >> ]

\* the last step did not run switch_schema
NoPrerun ==
    [ valid |-> FALSE, proc |-> "worker", had |-> FALSE,
      schema |-> PublicSchemaName, raised |-> FALSE,
      connBefore |-> PublicSchemaName, connAfter |-> PublicSchemaName,
      kwAfter |-> EmptyKw ]

\* the worker executes nothing
NoRequest ==
    [ kwargs |-> EmptyKw, origin |-> "none", foreign |-> FALSE,
      key |-> PublicSchemaName ]

\* the calling code holds no mapping yet
NoMapping == [ live |-> FALSE, d |-> EmptyKw, explicit |-> FALSE ]

\* the record of one run of switch_schema in process p
PrerunRecord(p, kwargs, sw) ==
    [ valid |-> TRUE, proc |-> p, had |-> SchemaKey \in DOMAIN kwargs,
      schema |-> sw.schema, raised |-> sw.raised,
      connBefore |-> conn[p], connAfter |-> sw.conn, kwAfter |-> sw.kwargs ]

\* the record of a call in process p that was passed the mapping kw and the
\* positional arguments a, handed the mapping kw1 on, and left the caller's
\* mapping as kw2
CallRecord(p, via, mode, explicit, kw, kw1, kw2, a) ==
    [ valid |-> TRUE, proc |-> p, via |-> via, mode |-> mode,
      conn |-> conn[p], explicit |-> explicit,
      before |-> kw, handed |-> kw1, after |-> kw2,
      argsIn |-> a, argsOut |-> a ]

----------------------------------------------------------------------------
\* state after import

Init ==
    /\ tenants \in SUBSET Schemas
    /\ conn = [p \in Procs |-> PublicSchemaName]
    /\ defaultKw = [p \in Procs |-> EmptyKw]
    /\ held = NoMapping
    /\ queue = << >>
    /\ pc = "idle"
    /\ running = NoRequest
    /\ last = NoCall
    /\ lastPre = NoPrerun

----------------------------------------------------------------------------
\* the calling code

\* The mappings the calling code can build: the ordinary keyword arguments,
\* alone or with the reserved key set by the caller itself.
CallerDicts ==
    {Extra} \cup
    { [k \in DOMAIN Extra \cup {SchemaKey} |->
          IF k = SchemaKey THEN s ELSE Extra[k]] : s \in Schemas }

\* The web process's connection is switched to a tenant (per request) or
\* back to the public schema.
SetSchema(s) ==
    /\ s # conn["web"]
    /\ s = PublicSchemaName \/ TenantExists(s)
    /\ conn' = [conn EXCEPT !["web"] = SetTenant(s)]
    /\ last' = NoCall
    /\ lastPre' = NoPrerun
    /\ UNCHANGED <<tenants, defaultKw, held, queue, pc, running>>

\* The calling code builds a mapping d to pass as kwargs.
NewMapping(d) ==
    /\ held' = [live |-> TRUE, d |-> d, explicit |-> SchemaKey \in DOMAIN d]
    /\ held' # held
    /\ last' = NoCall
    /\ lastPre' = NoPrerun
    /\ UNCHANGED <<tenants, conn, defaultKw, queue, pc, running>>

\* A task that is not a TenantTask is sent: its message has no reserved key.
SendForeign ==
    /\ Len(queue) < MaxQueue
    /\ queue' = Append(queue, [kwargs |-> Extra, origin |-> "none"])
    /\ last' = NoCall
    /\ lastPre' = NoPrerun
    /\ UNCHANGED <<tenants, conn, defaultKw, held, pc, running>>

----------------------------------------------------------------------------
\* TenantTask.apply_async

\* Task.apply_async(args, kwargs): the message put on the broker holds a
\* serialised copy of kwargs.  origin notes the schema the caller's
\* connection was on, or "none" when the caller supplied the reserved key
\* itself.
Publish(p, kwargs, explicit) ==
    queue' = Append(queue, [kwargs |-> kwargs,
                            origin |-> IF explicit THEN "none" ELSE conn[p]])

\* task.apply_async(a) in process p: kwargs is the default object.
ApplyAsyncOmitted(p, a) ==
    /\ p = "web" \/ pc = "body"
    /\ Len(queue) < MaxQueue
    /\ LET kw == AddCurrentSchema(defaultKw[p], conn[p])
       IN  /\ defaultKw' = [defaultKw EXCEPT ![p] = kw]
           /\ Publish(p, kw, FALSE)
           /\ last' = CallRecord(p, "apply_async", "omitted", FALSE,
                                 defaultKw[p], kw, kw, a)
    /\ lastPre' = NoPrerun
    /\ UNCHANGED <<tenants, conn, held, pc, running>>

\* task.apply_async(a, held) in the web process.
ApplyAsyncWith(a) ==
    /\ held.live
    /\ Len(queue) < MaxQueue
    /\ LET kw == AddCurrentSchema(held.d, conn["web"])
       IN  /\ held' = [held EXCEPT !.d = kw]
           /\ Publish("web", kw, held.explicit)
           /\ last' = CallRecord("web", "apply_async", "mapping", held.explicit,
                                 held.d, kw, kw, a)
    /\ lastPre' = NoPrerun
    /\ UNCHANGED <<tenants, conn, defaultKw, pc, running>>

\* The running task body re-enqueues its task with the kwargs of its request
\* (as Task.retry does).
Retry ==
    /\ pc = "body"
    /\ ~running.foreign
    /\ Len(queue) < MaxQueue
    /\ LET kw == AddCurrentSchema(running.kwargs, conn["worker"])
       IN  /\ running' = [running EXCEPT !.kwargs = kw]
           /\ Publish("worker", kw, FALSE)
           /\ last' = CallRecord("worker", "apply_async", "received", FALSE,
                                 running.kwargs, kw, kw, << >>)
    /\ lastPre' = NoPrerun
    /\ UNCHANGED <<tenants, conn, defaultKw, held, pc>>

----------------------------------------------------------------------------
\* TenantTask.apply

\* task.apply(a, held) in the web process.  Task.apply executes the task in
\* the calling process: task_prerun is sent with the mapping it was handed,
\* and the body runs unless the handler raised.
Apply(a) ==
    /\ held.live
    /\ LET kw == AddCurrentSchema(held.d, conn["web"])
           sw == SwitchSchema(kw, conn["web"])
       IN  /\ held' = [held EXCEPT !.d = sw.kwargs, !.explicit = FALSE]
           /\ conn' = [conn EXCEPT !["web"] = sw.conn]
           /\ lastPre' = PrerunRecord("web", kw, sw)
           /\ last' = CallRecord("web", "apply", "mapping", held.explicit,
                                 held.d, kw, sw.kwargs, a)
    /\ UNCHANGED <<tenants, defaultKw, queue, pc, running>>

----------------------------------------------------------------------------
\* the worker

\* The worker takes the next message and sends task_prerun: switch_schema
\* runs on the request's kwargs.  When it raises, the task fails and its body
\* does not run; otherwise the body starts with the kwargs as they are now.
Prerun ==
    /\ pc = "idle"
    /\ queue # << >>
    /\ LET m == Head(queue)
           sw == SwitchSchema(m.kwargs, conn["worker"])
       IN  /\ queue' = Tail(queue)
           /\ conn' = [conn EXCEPT !["worker"] = sw.conn]
           /\ lastPre' = PrerunRecord("worker", m.kwargs, sw)
           /\ IF sw.raised
              THEN /\ pc' = "idle"
                   /\ running' = NoRequest
              ELSE /\ pc' = "body"
                   /\ running' = [ kwargs |-> sw.kwargs, origin |-> m.origin,
                                   foreign |-> SchemaKey \notin DOMAIN m.kwargs,
                                   key |-> sw.schema ]
    /\ last' = NoCall
    /\ UNCHANGED <<tenants, defaultKw, held>>

\* The task body returns.
BodyDone ==
    /\ pc = "body"
    /\ pc' = "idle"
    /\ running' = NoRequest
    /\ last' = NoCall
    /\ lastPre' = NoPrerun
    /\ UNCHANGED <<tenants, conn, defaultKw, held, queue>>

----------------------------------------------------------------------------

Next ==
    \/ \E s \in Schemas : SetSchema(s)
    \/ \E d \in CallerDicts : NewMapping(d)
    \/ SendForeign
    \/ \E p \in Procs, a \in ArgsSet : ApplyAsyncOmitted(p, a)
    \/ \E a \in ArgsSet : ApplyAsyncWith(a)
    \/ Retry
    \/ \E a \in ArgsSet : Apply(a)
    \/ Prerun
    \/ BodyDone

Spec == Init /\ [][Next]_vars

----------------------------------------------------------------------------
\* Properties

\* Whether mapping d holds schema s under the reserved key.
Carries(d, s) == SchemaKey \in DOMAIN d /\ d[SchemaKey] = s

\* C1: every call of apply_async / apply in which the caller did not supply
\* the reserved key itself (kwargs omitted, a fresh mapping, or a mapping
\* reused from an earlier call) hands on kwargs whose '_schema_name' equals
\* connection.schema_name at the moment of the call.
C1_ReservedEqualsCurrentSchema ==
    (last.valid /\ ~last.explicit) => Carries(last.handed, last.conn)

\* C2: a task enqueued through apply_async while the caller's connection was
\* on a schema S that has a tenant record runs its body with the worker's
\* connection on S.
C2_RoundTrip ==
    (pc = "body" /\ running.origin \in tenants)
        => conn["worker"] = running.origin

\* C3: after switch_schema has run, the kwargs hold no '_schema_name',
\* whether the key was there before or not and whether the lookup raised or
\* not; a body the worker starts is called with these kwargs.
C3_ReservedKeyPopped ==
    /\ lastPre.valid => SchemaKey \notin DOMAIN lastPre.kwAfter
    /\ (lastPre.valid /\ lastPre.proc = "worker" /\ pc = "body")
           => running.kwargs = lastPre.kwAfter

\* C3 witness: the key was present and the lookup raised.
C3_Witness == lastPre.valid /\ lastPre.had /\ lastPre.raised

\* C4 as stated: whenever switch_schema runs on kwargs without
\* '_schema_name', the connection is on the public schema afterwards.
C4_AbsentSwitchesToPublic ==
    (lastPre.valid /\ ~lastPre.had) => lastPre.connAfter = PublicSchemaName

\* C4 amended: when switch_schema runs on kwargs without '_schema_name' and
\* the public schema has a tenant record, the connection is on the public
\* schema afterwards, whatever it was on before; when the public schema has
\* no record, the handler raises and leaves the connection as it was.
C4_AbsentSwitchesToPublicIfRecord ==
    (lastPre.valid /\ ~lastPre.had) =>
        /\ lastPre.schema = PublicSchemaName
        /\ IF TenantExists(PublicSchemaName)
           THEN ~lastPre.raised /\ lastPre.connAfter = PublicSchemaName
           ELSE lastPre.raised /\ lastPre.connAfter = lastPre.connBefore

\* C4 witness: a connection left on a tenant is switched to public.
C4_Witness ==
    /\ lastPre.valid /\ ~lastPre.had /\ ~lastPre.raised
    /\ lastPre.connBefore # PublicSchemaName
    /\ lastPre.connAfter = PublicSchemaName

\* C5: a call of apply_async that omits kwargs attaches the schema the
\* caller's connection is on at that call, whatever earlier calls attached:
\* calls under A and then B attach A and then B.
C5_OmittedKwargsIndependent ==
    (last.valid /\ last.mode = "omitted") =>
        last.handed = AddCurrentSchema(EmptyKw, last.conn)

\* C6: after apply_async / apply returns, the mapping the caller passed as
\* kwargs holds exactly the entries it held before the call.
C6_CallerMappingUnchanged ==
    (last.valid /\ last.mode = "mapping") => last.after = last.before

\* C7: switch_schema raises exactly when the schema it looks up has no
\* tenant record; it then leaves the connection as it was (no fallback to
\* the public schema), and the worker starts no body.
C7_MissingTenantRaises ==
    lastPre.valid =>
        /\ lastPre.raised <=> ~TenantExists(lastPre.schema)
        /\ lastPre.raised => lastPre.connAfter = lastPre.connBefore
        /\ (lastPre.raised /\ lastPre.proc = "worker") => pc = "idle"

\* C7 witness: the lookup failed in a process whose connection was on a
\* tenant's schema.
C7_Witness ==
    /\ lastPre.valid /\ lastPre.raised
    /\ lastPre.connBefore # PublicSchemaName
    /\ lastPre.schema # lastPre.connBefore

\* C8: the kwargs handed to the underlying Task method carry the caller's
\* '_schema_name' when the mapping already had one, and
\* connection.schema_name otherwise; every other entry and the positional
\* arguments are handed on unchanged.
C8_KeyInsertedOnlyIfAbsent ==
    last.valid =>
        /\ DOMAIN last.handed = DOMAIN last.before \cup {SchemaKey}
        /\ IF SchemaKey \in DOMAIN last.before
           THEN last.handed[SchemaKey] = last.before[SchemaKey]
           ELSE last.handed[SchemaKey] = last.conn
        /\ \A k \in DOMAIN last.before \ {SchemaKey} :
               last.handed[k] = last.before[k]
        /\ last.argsOut = last.argsIn

\* C8 witness: the caller supplied a schema other than the connection's.
C8_Witness ==
    /\ last.valid /\ last.explicit
    /\ SchemaKey \in DOMAIN last.before
    /\ last.before[SchemaKey] # last.conn
    /\ OtherKey \in DOMAIN last.before

\* C9: a body runs only with the connection on the schema its own kwargs
\* named (the public schema when they named none), never on the schema an
\* earlier task left; when the lookup fails no body runs.
C9_NoTenantLeak ==
    /\ pc = "body" =>
           /\ conn["worker"] = running.key
           /\ TenantExists(running.key)
    /\ (lastPre.valid /\ ~lastPre.raised) =>
           /\ lastPre.connAfter = lastPre.schema
           /\ TenantExists(lastPre.schema)
    /\ (lastPre.valid /\ lastPre.raised /\ lastPre.proc = "worker")
           => pc = "idle"

\* C9 witness: a body runs on a worker whose connection an earlier task had
\* left on another schema.
C9_Witness ==
    /\ pc = "body" /\ lastPre.valid /\ lastPre.proc = "worker"
    /\ lastPre.connBefore # conn["worker"]
    /\ lastPre.connBefore # PublicSchemaName

\* C10: a TenantTask enqueued from a running task body, without the body
\* supplying '_schema_name', carries the schema the body runs under.
C10_ChainPropagates ==
    (last.valid /\ last.proc = "worker" /\ pc = "body")
        => Carries(last.handed, running.key)

====
